---- MODULE Spec2Model ----
(***************************************************************************)
(* A model of src/src/main.cpp, the serial-to-radio gateway: the command   *)
(* interpreter (handleRadioCommand), the outbound queue with its retry     *)
(* policy (handleTransmission), the inbound decoder (handleReception,      *)
(* calculateChecksum) and the driving loop (setup, loop).                  *)
(*                                                                         *)
(* Representation.                                                         *)
(*  - An Arduino String is a sequence of one-character strings, so that    *)
(*    startsWith, indexOf, substring, toFloat and toInt are computed the   *)
(*    way the String class computes them.                                  *)
(*  - A float is held as an integer number of thousandths (868.0 MHz is    *)
(*    868000); toFloat keeps three decimals.                               *)
(*  - `out' is what Serial printed, line by line, and `radio' is the list  *)
(*    of calls made on the radio object, both since the start of the       *)
(*    current pass through loop() (setup() writes them before the first    *)
(*    pass).                                                               *)
(*  - The codec (deserializeJson) is a collaborator: a received payload is *)
(*    given by what the codec makes of it, an error message or a document  *)
(*    holding the seven keys.                                              *)
(***************************************************************************)
EXTENDS Integers, Sequences, FiniteSets, TLC

VARIABLES
    pc,            \* "setup", "poll" (top of loop), "radio" (line 146), "halted" (line 42)
    transmitMode,  \* line 18
    currentFreq,   \* line 19, in thousandths
    packetQueue,   \* line 17
    command,       \* the line read at line 142 in this pass, or NoLine
    out,           \* Serial output of this pass
    radio,         \* calls on the radio object in this pass
    state,         \* the radio status read in this pass: <<>> or <<status>>
    received,      \* line 104: what the radio and the codec gave in this pass
    lastModeCmd,   \* history: the last mode line read: "none", "TX" or "RX"
    watch,         \* history: the attempts that followed one failed transmit
    ckPayload,     \* line 50: the payload calculateChecksum is called on
    ckSums         \* line 53: what the calls of calculateChecksum on it returned

vars == <<pc, transmitMode, currentFreq, packetQueue, command, out, radio,
          state, received, lastModeCmd, watch, ckPayload, ckSums>>

\* The variables of the calls of calculateChecksum taken on their own.
ckVars == <<ckPayload, ckSums>>

----------------------------------------------------------------------------
(* Bounds of the model *)

\* DATA lines are offered only while the queue holds fewer entries than this.
MaxQueue == 2

\* The payloads given to calculateChecksum on its own hold at most this many
\* characters.
MaxLen == 3

\* calculateChecksum is called at most this many times on one payload.
MaxCalls == 2

----------------------------------------------------------------------------
(* Program constants *)

RADIOLIB_ERR_NONE == 0

\* ArduinoQueue<String> packetQueue(50)
QueueCapacity == 50

\* float currentFreq = 868.0, in thousandths
InitialFreq == 868000

\* sizeof(header.checksum)
ChecksumSize == 3

----------------------------------------------------------------------------
(* Text literals of the program *)

PFX_SET      == <<"<","S","E","T","|">>
PFX_TXMODE   == <<"<","T","X","M","O","D","E",">">>
PFX_RXMODE   == <<"<","R","X","M","O","D","E",">">>
PFX_RX_READY == <<"<","R","X","_","R","E","A","D","Y",">">>
PFX_FILE     == <<"<","F","I","L","E","|">>
PFX_DATA     == <<"<","D","A","T","A","|">>

STATUS_FREQ_SET     == <<"<","S","T","A","T","U","S","|","F","R","E","Q","_","S","E","T",">">>
STATUS_TX_MODE      == <<"<","S","T","A","T","U","S","|","T","X","_","M","O","D","E",">">>
STATUS_RX_MODE      == <<"<","S","T","A","T","U","S","|","R","X","_","M","O","D","E",">">>
STATUS_RX_READY     == <<"<","S","T","A","T","U","S","|","R","X","_","R","E","A","D","Y",">">>
STATUS_FILE_START   == <<"<","S","T","A","T","U","S","|","F","I","L","E","_","S","T","A","R","T","|">>
STATUS_TX_SUCCESS   == <<"<","S","T","A","T","U","S","|","T","X","_","S","U","C","C","E","S","S",">">>
STATUS_TX_FAIL      == <<"<","S","T","A","T","U","S","|","T","X","_","F","A","I","L",">">>
STATUS_CHECKSUM_ERR == <<"<","S","T","A","T","U","S","|","C","H","E","C","K","S","U","M","_","E","R","R",">">>
ERROR_RADIO_INIT    == <<"<","E","R","R","O","R","|","R","A","D","I","O","_","I","N","I","T","_","C","O","D","E",":">>
ERROR_JSON          == <<"<","E","R","R","O","R","|","J","S","O","N",":">>

----------------------------------------------------------------------------
(* Characters *)

\* The printable ASCII characters, codes 32 to 126 in order ("grave" holds the
\* place of code 96, which the lexer cannot read as a string; no input uses it).
Printable ==
    <<" ","!","\"","#","$","%","&","'","(",")","*","+",",","-",".","/",
      "0","1","2","3","4","5","6","7","8","9",":",";","<","=",">","?",
      "@","A","B","C","D","E","F","G","H","I","J","K","L","M","N","O",
      "P","Q","R","S","T","U","V","W","X","Y","Z","[","\\","]","^","_",
      "grave","a","b","c","d","e","f","g","h","i","j","k","l","m","n","o",
      "p","q","r","s","t","u","v","w","x","y","z","{","|","}","~">>

\* The numeric value of a char, as (sum + c) reads it.
CharCode(c) == 31 + CHOOSE i \in 1..Len(Printable) : Printable[i] = c

Digits == <<"0","1","2","3","4","5","6","7","8","9">>

HexDigits == <<"0","1","2","3","4","5","6","7","8","9","a","b","c","d","e","f">>

IsDigit(c) == \E i \in 1..Len(Digits) : Digits[i] = c

DigitValue(c) == (CHOOSE i \in 1..Len(Digits) : Digits[i] = c) - 1

Min(a, b) == IF a < b THEN a ELSE b

----------------------------------------------------------------------------
(* The Arduino String operations the program uses (indices are 0-based) *)

\* Mutant of StartsWith: the prefix is looked for anywhere in the line.
StartsWith_Anywhere(s, prefix) ==
    \E k \in 0..(Len(s) - Len(prefix)) : SubSeq(s, k + 1, k + Len(prefix)) = prefix

\* String::startsWith(prefix)
StartsWith(s, prefix) ==
    /\ Len(prefix) <= Len(s)
    /\ SubSeq(s, 1, Len(prefix)) = prefix

\* String::indexOf(ch, fromIndex): the first index >= fromIndex holding ch, or -1
IndexOfFrom(s, ch, fromIndex) ==
    LET hits == {i \in fromIndex..(Len(s) - 1) : s[i + 1] = ch}
    IN  IF hits = {} THEN -1 ELSE CHOOSE i \in hits : \A j \in hits : i <= j

\* String::indexOf(ch)
IndexOf(s, ch) == IndexOfFrom(s, ch, 0)

\* String::lastIndexOf(ch): the last index holding ch, or -1
LastIndexOf(s, ch) ==
    LET hits == {i \in 0..(Len(s) - 1) : s[i + 1] = ch}
    IN  IF hits = {} THEN -1 ELSE CHOOSE i \in hits : \A j \in hits : j <= i

\* An int passed as an unsigned int parameter: a negative index becomes an
\* index past the end of any string (2^32 + i; held below 2^31 here, which is
\* past any string all the same).
Unsigned(i) == IF i < 0 THEN 2147483647 + (i + 1) ELSE i

\* String::substring(beginIndex, endIndex): swaps the two when begin > end,
\* is empty when begin is past the end, clips end to the length.
Substring(s, beginIndex, endIndex) ==
    LET b     == Unsigned(beginIndex)
        e     == Unsigned(endIndex)
        left  == IF b > e THEN e ELSE b
        right == IF b > e THEN b ELSE e
    IN  IF left >= Len(s) THEN <<>>
        ELSE SubSeq(s, left + 1, Min(right, Len(s)))

\* The number of leading characters of s, from 1-based position i, that are digits.
RECURSIVE DigitRun(_, _)
DigitRun(s, i) ==
    IF i <= Len(s) /\ IsDigit(s[i]) THEN 1 + DigitRun(s, i + 1) ELSE 0

\* The value of the digits s[i..i+n-1], read in base 10.
RECURSIVE DigitsValue(_, _, _)
DigitsValue(s, i, n) ==
    IF n = 0 THEN 0
    ELSE 10 * DigitsValue(s, i, n - 1) + DigitValue(s[i + n - 1])

\* The number of leading blanks of s.
RECURSIVE BlankRun(_, _)
BlankRun(s, i) ==
    IF i <= Len(s) /\ s[i] = " " THEN 1 + BlankRun(s, i + 1) ELSE 0

\* String::toInt(), atol: leading blanks, an optional sign, then digits; 0 when
\* no digit is there; whatever follows the digits is ignored.
ToInt(s) ==
    LET i0   == 1 + BlankRun(s, 1)
        neg  == i0 <= Len(s) /\ s[i0] = "-"
        i1   == IF i0 <= Len(s) /\ s[i0] \in {"-", "+"} THEN i0 + 1 ELSE i0
        n    == DigitRun(s, i1)
        v    == DigitsValue(s, i1, n)
    IN  IF neg THEN 0 - v ELSE v

\* String::toFloat(), atof, in thousandths: leading blanks, an optional sign,
\* digits, an optional point and digits; 0 when no number is there; whatever
\* follows is ignored.  The inputs of the model carry no exponent, no hex form
\* and no "inf"/"nan".
ToFloat(s) ==
    LET i0   == 1 + BlankRun(s, 1)
        neg  == i0 <= Len(s) /\ s[i0] = "-"
        i1   == IF i0 <= Len(s) /\ s[i0] \in {"-", "+"} THEN i0 + 1 ELSE i0
        n    == DigitRun(s, i1)
        ip   == DigitsValue(s, i1, n)
        dot  == i1 + n <= Len(s) /\ s[i1 + n] = "."
        m    == IF dot THEN DigitRun(s, i1 + n + 1) ELSE 0
        k    == Min(m, 3)
        fr   == IF k = 0 THEN 0
                ELSE DigitsValue(s, i1 + n + 1, k)
                     * (IF k = 1 THEN 100 ELSE IF k = 2 THEN 10 ELSE 1)
        v    == IF n = 0 /\ m = 0 THEN 0 ELSE 1000 * ip + fr
    IN  IF neg THEN 0 - v ELSE v

\* The digits of n >= 0 in the given base, most significant first, no padding.
RECURSIVE NatToStr(_, _)
NatToStr(n, base) ==
    IF n < base THEN <<HexDigits[n + 1]>>
    ELSE Append(NatToStr(n \div base, base), HexDigits[(n % base) + 1])

\* Serial.print(int): decimal, with a minus sign when negative
IntToStr(n) == IF n < 0 THEN <<"-">> \o NatToStr(0 - n, 10) ELSE NatToStr(n, 10)

\* String(uint8_t value, HEX): utoa in base 16, lower case, no padding
HexString(value) == NatToStr(value, 16)

\* strlcpy(dst, src, size) leaves in dst the first size-1 characters of src
Strlcpy(src, size) == SubSeq(src, 1, Min(Len(src), size - 1))

----------------------------------------------------------------------------
(* calculateChecksum, lines 50-54 *)

\* Mutant of ChecksumLoop: the sum stops at 255 instead of wrapping.
RECURSIVE ChecksumLoop_Saturates(_, _, _)
ChecksumLoop_Saturates(payload, i, sum) ==
    IF i > Len(payload) THEN sum
    ELSE ChecksumLoop_Saturates(payload, i + 1, Min(sum + CharCode(payload[i]), 255))

\* The loop body of line 52 from character i on, with sum so far.
RECURSIVE ChecksumLoop(_, _, _)
ChecksumLoop(payload, i, sum) ==
    IF i > Len(payload) THEN sum
    ELSE ChecksumLoop(payload, i + 1, (sum + CharCode(payload[i])) % 256)

calculateChecksum(payload) == ChecksumLoop(payload, 1, 0)

----------------------------------------------------------------------------
(* The collaborators: the queue, the radio object, the codec *)

\* ArduinoQueue::enqueue: refuses the item when the queue is full
Enqueue(q, item) == IF Len(q) >= QueueCapacity THEN q ELSE Append(q, item)

\* A call on the radio object: the method, its String argument (<<>> when it
\* has none) and its numeric argument in thousandths (0 when it has none).
RadioCall(op, packet, arg) == [op |-> op, packet |-> packet, arg |-> arg]

\* What radio.begin can return: RADIOLIB_ERR_NONE or RADIOLIB_ERR_CHIP_NOT_FOUND
BeginStates == {RADIOLIB_ERR_NONE, -2}

\* What radio.transmit can return: RADIOLIB_ERR_NONE or RADIOLIB_ERR_TX_TIMEOUT
TransmitStates == {RADIOLIB_ERR_NONE, -5}

\* A parsed document with the seven keys of the over-the-air payload.
Doc(type, seq, total, filename, checksum, data) ==
    [type |-> type, seq |-> seq, total |-> total, filename |-> filename,
     checksum |-> checksum, data_len |-> Len(data), data |-> data]

NoDoc == Doc(<<>>, 0, 0, <<>>, <<>>, <<>>)

\* DeserializationError::c_str() of a payload that is no JSON text
InvalidInput == <<"I","n","v","a","l","i","d","I","n","p","u","t">>

\* What radio.receive and deserializeJson can give: the radio's status
\* (RADIOLIB_ERR_RX_TIMEOUT when nothing came), the codec's error message
\* (<<>> when it parsed) and the document.
Reception(status, error, doc) == [state |-> status, error |-> error, doc |-> doc]

DataHello == <<"h","e","l","l","o">>
DataAAAA  == <<"A","A","A","A">>

Docs ==
    { Doc(<<"D">>, 1, 2, <<"f">>, ck, d) :
        ck \in {<<"1","4">>, <<"1","5">>, <<"1","4","7">>}, d \in {DataHello} }
    \cup
    { Doc(<<"D">>, 2, 2, <<"f">>, ck, d) :
        ck \in {<<"0","4">>, <<"4">>}, d \in {DataAAAA} }

\* Nothing came: RADIOLIB_ERR_RX_TIMEOUT, and `received' stays empty.
NothingReceived == Reception(-6, <<>>, NoDoc)

Receptions ==
    { NothingReceived, Reception(RADIOLIB_ERR_NONE, InvalidInput, NoDoc) }
    \cup { Reception(RADIOLIB_ERR_NONE, <<>>, d) : d \in Docs }

Quoted(s) == <<"\"">> \o s \o <<"\"">>

\* serializeJson(doc, Serial): the compact JSON text of the document
SerializeJson(doc) ==
    <<"{">> \o Quoted(<<"t","y","p","e">>) \o <<":">> \o Quoted(doc.type)
    \o <<",">> \o Quoted(<<"s","e","q">>) \o <<":">> \o IntToStr(doc.seq)
    \o <<",">> \o Quoted(<<"t","o","t","a","l">>) \o <<":">> \o IntToStr(doc.total)
    \o <<",">> \o Quoted(<<"f","i","l","e","n","a","m","e">>) \o <<":">> \o Quoted(doc.filename)
    \o <<",">> \o Quoted(<<"c","h","e","c","k","s","u","m">>) \o <<":">> \o Quoted(doc.checksum)
    \o <<",">> \o Quoted(<<"d","a","t","a","_","l","e","n">>) \o <<":">> \o IntToStr(doc.data_len)
    \o <<",">> \o Quoted(<<"d","a","t","a">>) \o <<":">> \o Quoted(doc.data)
    \o <<"}">>

----------------------------------------------------------------------------
(* The handlers, as functions of the program state                         *)
(* st = [transmitMode, currentFreq, packetQueue, out, radio, state,        *)
(* received], where                                                        *)
(* state is <<>> until a radio status is read and <<status>> after         *)

\* Mutant of setFrequencyCommand: text that holds no number is refused.
setFrequencyCommand_RefusesBadText(cmd, st) ==
    LET text == Substring(cmd, 5, IndexOf(cmd, ","))
        freq == ToFloat(text)
    IN  IF DigitRun(text, 1) = 0 THEN st
        ELSE [st EXCEPT !.currentFreq = freq,
                        !.radio = Append(@, RadioCall("setFrequency", <<>>, freq)),
                        !.out = Append(@, STATUS_FREQ_SET)]

\* Mutant of setFrequencyCommand: the text is read with toInt.
setFrequencyCommand_ToInt(cmd, st) ==
    LET freq == 1000 * ToInt(Substring(cmd, 5, IndexOf(cmd, ",")))
    IN  [st EXCEPT !.currentFreq = freq,
                   !.radio = Append(@, RadioCall("setFrequency", <<>>, freq)),
                   !.out = Append(@, STATUS_FREQ_SET)]

\* lines 58-60, the <SET| branch
setFrequencyCommand(cmd, st) ==
    LET freq == ToFloat(Substring(cmd, 5, IndexOf(cmd, ",")))
    IN  [st EXCEPT !.currentFreq = freq,
                   !.radio = Append(@, RadioCall("setFrequency", <<>>, freq)),
                   !.out = Append(@, STATUS_FREQ_SET)]

\* lines 63-64, the <TXMODE> branch
txModeCommand(st) ==
    [st EXCEPT !.transmitMode = TRUE, !.out = Append(@, STATUS_TX_MODE)]

\* Mutant of rxModeCommand: the line toggles the mode.
rxModeCommand_Toggles(st) ==
    [st EXCEPT !.transmitMode = ~@, !.out = Append(@, STATUS_RX_MODE)]

\* lines 67-68, the <RXMODE> branch
rxModeCommand(st) ==
    [st EXCEPT !.transmitMode = FALSE, !.out = Append(@, STATUS_RX_MODE)]

\* line 71, the <RX_READY> branch
rxReadyCommand(st) == [st EXCEPT !.out = Append(@, STATUS_RX_READY)]

\* lines 74-82, the <FILE| branch (size, line 76, is computed and not used)
fileCommand(cmd, st) ==
    LET filename == Substring(cmd, 6, IndexOfFrom(cmd, "|", 6))
        total    == ToInt(Substring(cmd, IndexOfFrom(cmd, "|", 6) + 1,
                                    LastIndexOf(cmd, "|")))
    IN  [st EXCEPT !.out = Append(@, STATUS_FILE_START \o filename \o <<"|">>
                                     \o IntToStr(total) \o <<">">>)]

\* Mutant of dataCommand: on a full queue the oldest entry makes room.
dataCommand_DropsOldest(cmd, st) ==
    LET packet == Substring(cmd, 6, IndexOf(cmd, ">"))
    IN  [st EXCEPT !.packetQueue = IF Len(@) >= QueueCapacity
                                   THEN Append(Tail(@), packet)
                                   ELSE Append(@, packet)]

\* Mutant of dataCommand: the payload runs to the last '>' of the line.
dataCommand_ToLastBracket(cmd, st) ==
    [st EXCEPT !.packetQueue = Enqueue(@, Substring(cmd, 6, LastIndexOf(cmd, ">")))]

\* line 85, the <DATA| branch
dataCommand(cmd, st) ==
    [st EXCEPT !.packetQueue = Enqueue(@, Substring(cmd, 6, IndexOf(cmd, ">")))]

\* handleRadioCommand, lines 56-87
handleRadioCommand(cmd, st) ==
    IF StartsWith(cmd, PFX_SET) THEN setFrequencyCommand(cmd, st)
    ELSE IF StartsWith(cmd, PFX_TXMODE) THEN txModeCommand(st)
    ELSE IF StartsWith(cmd, PFX_RXMODE) THEN rxModeCommand(st)
    ELSE IF StartsWith(cmd, PFX_RX_READY) THEN rxReadyCommand(st)
    ELSE IF StartsWith(cmd, PFX_FILE) THEN fileCommand(cmd, st)
    ELSE IF StartsWith(cmd, PFX_DATA) THEN dataCommand(cmd, st)
    ELSE st

\* Mutant of transmitSucceeded: once the last entry is sent the mode is left.
transmitSucceeded_LeavesTxWhenDrained(st, packet, rest) ==
    [st EXCEPT !.packetQueue = rest, !.out = Append(@, STATUS_TX_SUCCESS),
               !.transmitMode = rest # <<>>]

\* Mutant of transmitSucceeded: the packet sent stays at the head.
transmitSucceeded_KeepsHead(st, packet, rest) ==
    [st EXCEPT !.packetQueue = <<packet>> \o rest, !.out = Append(@, STATUS_TX_SUCCESS)]

\* line 95: the packet was sent; rest is the queue after the dequeue of line 91
transmitSucceeded(st, packet, rest) ==
    [st EXCEPT !.packetQueue = rest, !.out = Append(@, STATUS_TX_SUCCESS)]

\* Mutant of transmitFailed: the packet is enqueued while it still is at the
\* head, and removed from the head after.
transmitFailed_EnqueuesFirst(st, packet, rest) ==
    [st EXCEPT !.packetQueue = Tail(Enqueue(<<packet>> \o rest, packet)),
               !.out = Append(@, STATUS_TX_FAIL)]

\* Mutant of transmitFailed: the packet goes back to the head.
transmitFailed_AtHead(st, packet, rest) ==
    [st EXCEPT !.packetQueue = <<packet>> \o rest, !.out = Append(@, STATUS_TX_FAIL)]

\* Mutant of transmitFailed: the packet is not put back.
transmitFailed_Drops(st, packet, rest) ==
    [st EXCEPT !.packetQueue = rest, !.out = Append(@, STATUS_TX_FAIL)]

\* lines 97-98: the packet was not sent
transmitFailed(st, packet, rest) ==
    [st EXCEPT !.packetQueue = Enqueue(rest, packet), !.out = Append(@, STATUS_TX_FAIL)]

\* Mutant of handleTransmission: the enqueue of line 98 is outside the else,
\* so a packet that was sent is queued again.
handleTransmission_RequeuesAlways(st, txState) ==
    IF st.packetQueue # <<>> THEN
        LET packet == Head(st.packetQueue)
            rest   == Tail(st.packetQueue)
            called == [st EXCEPT !.radio = Append(@, RadioCall("transmit", packet, 0)),
                                 !.state = <<txState>>]
        IN  IF txState = RADIOLIB_ERR_NONE
            THEN [called EXCEPT !.packetQueue = Enqueue(rest, packet),
                                !.out = Append(@, STATUS_TX_SUCCESS)]
            ELSE [called EXCEPT !.packetQueue = Enqueue(rest, packet),
                                !.out = Append(@, STATUS_TX_FAIL)]
    ELSE st

\* Mutant of handleTransmission: takes the newest entry, not the oldest.
handleTransmission_TakesNewest(st, txState) ==
    IF st.packetQueue # <<>> THEN
        LET packet == st.packetQueue[Len(st.packetQueue)]
            rest   == SubSeq(st.packetQueue, 1, Len(st.packetQueue) - 1)
            called == [st EXCEPT !.radio = Append(@, RadioCall("transmit", packet, 0)),
                                 !.state = <<txState>>]
        IN  IF txState = RADIOLIB_ERR_NONE
            THEN [called EXCEPT !.packetQueue = rest, !.out = Append(@, STATUS_TX_SUCCESS)]
            ELSE [called EXCEPT !.packetQueue = Enqueue(rest, packet),
                                !.out = Append(@, STATUS_TX_FAIL)]
    ELSE st

\* handleTransmission, lines 89-101; txState is what radio.transmit returns
handleTransmission(st, txState) ==
    IF st.packetQueue # <<>> THEN
        LET packet == Head(st.packetQueue)
            rest   == Tail(st.packetQueue)
            called == [st EXCEPT !.radio = Append(@, RadioCall("transmit", packet, 0)),
                                 !.state = <<txState>>]
        IN  IF txState = RADIOLIB_ERR_NONE
            THEN transmitSucceeded(called, packet, rest)
            ELSE transmitFailed(called, packet, rest)
    ELSE st

\* Mutant of handleReception: the return of line 115 is missing, so a payload
\* that did not parse goes on to the checksum test.
handleReception_NoReturnOnError(st, rx) ==
    LET called == [st EXCEPT !.radio = Append(@, RadioCall("receive", <<>>, 0)),
                             !.state = <<rx.state>>, !.received = rx]
        parsed == IF rx.error # <<>>
                  THEN [called EXCEPT !.out = Append(@, ERROR_JSON \o rx.error \o <<">">>)]
                  ELSE called
        checksum == Strlcpy(rx.doc.checksum, ChecksumSize)
        calcSum  == calculateChecksum(rx.doc.data)
    IN  IF rx.state = RADIOLIB_ERR_NONE THEN
            IF HexString(calcSum) # checksum THEN
                [parsed EXCEPT !.out = Append(@, STATUS_CHECKSUM_ERR)]
            ELSE
                [parsed EXCEPT !.out = Append(@, PFX_DATA \o SerializeJson(rx.doc)
                                                 \o <<">">>)]
        ELSE called

\* handleReception, lines 103-138; rx is what radio.receive and the codec give
handleReception(st, rx) ==
    LET called == [st EXCEPT !.radio = Append(@, RadioCall("receive", <<>>, 0)),
                             !.state = <<rx.state>>, !.received = rx]
    IN  IF rx.state = RADIOLIB_ERR_NONE THEN
            IF rx.error # <<>> THEN
                [called EXCEPT !.out = Append(@, ERROR_JSON \o rx.error \o <<">">>)]
            ELSE
                LET checksum == Strlcpy(rx.doc.checksum, ChecksumSize)
                    calcSum  == calculateChecksum(rx.doc.data)
                IN  IF HexString(calcSum) # checksum THEN
                        [called EXCEPT !.out = Append(@, STATUS_CHECKSUM_ERR)]
                    ELSE
                        [called EXCEPT !.out = Append(@, PFX_DATA \o SerializeJson(rx.doc)
                                                         \o <<">">>)]
        ELSE called

----------------------------------------------------------------------------
(* The lines the host sends *)

NoLine == <<"\n">>

LINE_SET_433   == PFX_SET \o <<"4","3","3",".","9","2",",","x",">">>
LINE_SET_BAD   == PFX_SET \o <<"a","b","c",",","x",">">>
LINE_FILE      == PFX_FILE \o <<"f",".","b","i","n","|","1","2","|","9",">">>
PayloadABC     == <<"a","b","c">>
PayloadB       == <<"B">>
LINE_DATA_ABC  == PFX_DATA \o <<"a","b","c",">">>
LINE_DATA_B    == PFX_DATA \o <<"B",">">>
LINE_DATA_TWO  == PFX_DATA \o <<"B",">","c",">">>
LINE_HELLO     == <<"h","e","l","l","o"," ","w","o","r","l","d">>
LINE_INNER     == <<" ">> \o PFX_RXMODE

DataLines == {LINE_DATA_ABC, LINE_DATA_B, LINE_DATA_TWO}

UnknownLines == {LINE_HELLO, LINE_INNER, <<>>}

Lines ==
    {LINE_SET_433, LINE_SET_BAD, PFX_TXMODE, PFX_RXMODE, PFX_RX_READY, LINE_FILE}
    \cup DataLines \cup UnknownLines

----------------------------------------------------------------------------
(* History *)

\* The queue q without the first entry equal to packet.
Others(q, packet) ==
    LET hits == {i \in 1..Len(q) : q[i] = packet}
    IN  IF hits = {} THEN q
        ELSE LET k == CHOOSE i \in hits : \A j \in hits : i <= j
             IN  SubSeq(q, 1, k - 1) \o SubSeq(q, k + 1, Len(q))

NoWatch == [open |-> FALSE, packet |-> <<>>, line |-> <<>>, behind |-> <<>>,
            attempts |-> <<>>, data |-> FALSE]

\* The watch after a transmit attempt of packet, with the line it printed.
\* A failed attempt starts a watch (restart says whether it does so when one
\* is open); any other attempt joins the open watch, which closes once the
\* entries that were behind the failed one, and then that one, were attempted.
WatchAttempt(w, packet, rest, ok, line, restart) ==
    IF ~ok /\ (restart \/ ~w.open) THEN
        [open |-> TRUE, packet |-> packet, line |-> line, behind |-> rest,
         attempts |-> <<>>, data |-> FALSE]
    ELSE IF w.open THEN
        LET a == Append(w.attempts, [packet |-> packet, ok |-> ok, line |-> line])
        IN  [w EXCEPT !.attempts = a, !.open = Len(a) <= Len(w.behind)]
    ELSE w

\* The watch at the start of a pass: a closed watch is dropped, an open one
\* notes whether a DATA line came.
WatchPass(w, data) ==
    IF ~w.open THEN NoWatch
    ELSE [w EXCEPT !.data = @ \/ data]

----------------------------------------------------------------------------
(* The program *)

Cur == [transmitMode |-> transmitMode, currentFreq |-> currentFreq,
        packetQueue |-> packetQueue, out |-> out, radio |-> radio, state |-> state,
        received |-> received]

\* A fresh pass: nothing printed, no radio call made, no status read.
Fresh == [Cur EXCEPT !.out = <<>>, !.radio = <<>>, !.state = <<>>,
                     !.received = NothingReceived]

Becomes(st) ==
    /\ transmitMode' = st.transmitMode
    /\ currentFreq' = st.currentFreq
    /\ packetQueue' = st.packetQueue
    /\ out' = st.out
    /\ radio' = st.radio
    /\ state' = st.state
    /\ received' = st.received

InitProgram ==
    /\ pc = "setup"
    /\ transmitMode = TRUE
    /\ currentFreq = InitialFreq
    /\ packetQueue = <<>>
    /\ command = NoLine
    /\ out = <<>>
    /\ radio = <<>>
    /\ state = <<>>
    /\ received = NothingReceived
    /\ lastModeCmd = "none"
    /\ watch = NoWatch

Init ==
    /\ InitProgram
    /\ ckPayload = <<>>
    /\ ckSums = <<>>

\* setup and initializeRadio, lines 30-48; began is what radio.begin returns
initializeRadio(st, began) ==
    LET called == [st EXCEPT !.radio = Append(@, RadioCall("begin", <<>>, st.currentFreq)),
                             !.state = <<began>>]
    IN  IF began # RADIOLIB_ERR_NONE THEN
            [called EXCEPT !.out = Append(@, ERROR_RADIO_INIT \o IntToStr(began) \o <<">">>)]
        ELSE
            [called EXCEPT !.radio = @ \o << RadioCall("setBitRate", <<>>, 1200),
                                            RadioCall("setRxBandwidth", <<>>, 58000),
                                            RadioCall("setFrequencyDeviation", <<>>, 5000),
                                            RadioCall("setOutputPower", <<>>, 10000) >>]

\* Mutant of Setup: the loop is entered after a failed initialization too.
Setup_ContinuesAfterFailure ==
    /\ pc = "setup"
    /\ \E began \in BeginStates :
        /\ Becomes(initializeRadio(Cur, began))
        /\ pc' = "poll"
    /\ UNCHANGED <<command, lastModeCmd, watch>>
    /\ UNCHANGED ckVars

Setup ==
    /\ pc = "setup"
    /\ \E began \in BeginStates :
        /\ Becomes(initializeRadio(Cur, began))
        /\ pc' = IF began # RADIOLIB_ERR_NONE THEN "halted" ELSE "poll"
    /\ UNCHANGED <<command, lastModeCmd, watch>>
    /\ UNCHANGED ckVars

\* loop, lines 141-144, when Serial.available() is 0
LoopNoCommand ==
    /\ pc = "poll"
    /\ Becomes(Fresh)
    /\ command' = NoLine
    /\ watch' = WatchPass(watch, FALSE)
    /\ pc' = "radio"
    /\ UNCHANGED lastModeCmd
    /\ UNCHANGED ckVars

\* loop, lines 141-144, when a line is there
LoopCommand ==
    /\ pc = "poll"
    /\ \E line \in Lines :
        /\ line \in DataLines => Len(packetQueue) < MaxQueue
        /\ Becomes(handleRadioCommand(line, Fresh))
        /\ command' = line
        /\ lastModeCmd' = IF line = PFX_TXMODE THEN "TX"
                          ELSE IF line = PFX_RXMODE THEN "RX"
                          ELSE lastModeCmd
        /\ watch' = WatchPass(watch, line \in DataLines)
    /\ pc' = "radio"
    /\ UNCHANGED ckVars

\* Mutant of loopRadio: the else of line 148 is missing.
loopRadio_NoElse(st, txState, rx) ==
    IF st.transmitMode THEN handleReception(handleTransmission(st, txState), rx)
    ELSE handleReception(st, rx)

\* Mutant of loopRadio: the test of line 146 is inverted.
loopRadio_Inverted(st, txState, rx) ==
    IF ~st.transmitMode THEN handleTransmission(st, txState)
    ELSE handleReception(st, rx)

\* loop, lines 146-150: the radio step of a pass
loopRadio(st, txState, rx) ==
    IF st.transmitMode THEN handleTransmission(st, txState)
    ELSE handleReception(st, rx)

\* The transmit call a radio step made, given the calls before and after it.
Attempted(before, after) ==
    Len(after) > Len(before) /\ after[Len(before) + 1].op = "transmit"

\* What the radio can answer in this pass.  The answer to a call the pass
\* cannot make (a reception while transmitMode is set, a transmission while
\* it is not) is held fixed.
TransmitOutcomes == IF transmitMode THEN TransmitStates ELSE {RADIOLIB_ERR_NONE}

ReceiveOutcomes == IF transmitMode THEN {NothingReceived} ELSE Receptions

LoopRadio ==
    /\ pc = "radio"
    /\ \E txState \in TransmitOutcomes, rx \in ReceiveOutcomes, restart \in BOOLEAN :
        LET st == loopRadio(Cur, txState, rx)
            ok == st.state = <<RADIOLIB_ERR_NONE>>
        IN  /\ Becomes(st)
            /\ IF Attempted(radio, st.radio)
               THEN watch' = WatchAttempt(watch, st.radio[Len(radio) + 1].packet,
                                        Others(packetQueue, st.radio[Len(radio) + 1].packet), ok,
                                        IF st.out = <<>> THEN <<>> ELSE st.out[Len(st.out)],
                                        restart)
               ELSE UNCHANGED watch
    /\ pc' = "poll"
    /\ UNCHANGED <<command, lastModeCmd>>
    /\ UNCHANGED ckVars

Next == Setup \/ LoopNoCommand \/ LoopCommand \/ LoopRadio

Spec == Init /\ [][Next]_vars

\* loop() is called again and again: each of its steps is taken when it can be.
FairSpec ==
    /\ Spec
    /\ WF_vars(LoopNoCommand \/ LoopCommand)
    /\ WF_vars(LoopRadio)

----------------------------------------------------------------------------
(* calculateChecksum on its own: any payload, called again and again *)

\* The characters of the payloads: codes 32, 65, 122 and 126.
ChecksumChars == {" ", "A", "z", "~"}

\* The payloads of at most MaxLen characters.
ChecksumPayloads ==
    UNION { [1..n -> ChecksumChars] : n \in 0..MaxLen }

ChecksumInit ==
    /\ InitProgram
    /\ ckPayload \in ChecksumPayloads
    /\ ckSums = <<>>

\* One call of calculateChecksum(ckPayload), lines 50-54.
ChecksumCall ==
    /\ Len(ckSums) < MaxCalls
    /\ ckSums' = Append(ckSums, calculateChecksum(ckPayload))
    /\ UNCHANGED <<pc, transmitMode, currentFreq, packetQueue, command, out, radio,
                   state, received, lastModeCmd, watch, ckPayload>>

ChecksumNext == ChecksumCall

ChecksumSpec == ChecksumInit /\ [][ChecksumNext]_vars

----------------------------------------------------------------------------
(* The program with its queue nearly full *)

\* The queue after QueueCapacity - 1 lines <DATA|abc> were read.
NearlyFull == [i \in 1..(QueueCapacity - 1) |-> PayloadABC]

\* packet is one of the entries of q.
Queued(q, packet) == \E i \in 1..Len(q) : q[i] = packet

\* The lines the host sends from then on.
FullLines == {LINE_DATA_B, PFX_TXMODE, PFX_RXMODE}

\* The top of loop() after setup() succeeded and the host sent <RXMODE> and
\* then QueueCapacity - 1 times <DATA|abc>, one line a pass, while the radio
\* received nothing.
FullInit ==
    /\ pc = "poll"
    /\ transmitMode = FALSE
    /\ currentFreq = InitialFreq
    /\ packetQueue = NearlyFull
    /\ command = LINE_DATA_ABC
    /\ out = <<>>
    /\ radio = <<RadioCall("receive", <<>>, 0)>>
    /\ state = <<-6>>
    /\ received = NothingReceived
    /\ lastModeCmd = "RX"
    /\ watch = NoWatch
    /\ ckPayload = <<>>
    /\ ckSums = <<>>

\* loop, lines 141-144, when Serial.available() is 0
FullLoopNoCommand ==
    /\ pc = "poll"
    /\ Becomes(Fresh)
    /\ command' = NoLine
    /\ pc' = "radio"
    /\ UNCHANGED <<lastModeCmd, watch>>
    /\ UNCHANGED ckVars

\* loop, lines 141-144, when a line is there.  <DATA|B> comes while the queue
\* is full, or one short of full with no B in it.
FullLoopCommand ==
    /\ pc = "poll"
    /\ \E line \in FullLines :
        /\ line = LINE_DATA_B =>
              \/ Len(packetQueue) >= QueueCapacity
              \/ /\ Len(packetQueue) = QueueCapacity - 1
                 /\ ~Queued(packetQueue, PayloadB)
        /\ Becomes(handleRadioCommand(line, Fresh))
        /\ command' = line
    /\ pc' = "radio"
    /\ UNCHANGED <<lastModeCmd, watch>>
    /\ UNCHANGED ckVars

\* loop, lines 146-150; nothing is received
FullLoopRadio ==
    /\ pc = "radio"
    /\ \E txState \in TransmitOutcomes :
        Becomes(loopRadio(Cur, txState, NothingReceived))
    /\ pc' = "poll"
    /\ UNCHANGED <<command, lastModeCmd, watch>>
    /\ UNCHANGED ckVars

FullNext == FullLoopNoCommand \/ FullLoopCommand \/ FullLoopRadio

FullSpec == FullInit /\ [][FullNext]_vars

----------------------------------------------------------------------------
(* Vocabulary of the claims *)

TransmitCall(packet) == RadioCall("transmit", packet, 0)

ReceiveCall == RadioCall("receive", <<>>, 0)

\* How many of the calls are calls of op.
Count(calls, op) == Cardinality({i \in 1..Len(calls) : calls[i].op = op})

\* The radio step is about to run handleTransmission on a non-empty queue.
AtTransmit == pc = "radio" /\ transmitMode /\ packetQueue # <<>>

\* A step of loop() from line 141 to line 146, and one from line 146 to the end.
CommandStep == pc = "poll" /\ pc' = "radio"

RadioStep == pc = "radio" /\ pc' = "poll"

\* A pass through loop() has just ended.
PassDone == pc = "poll" /\ (radio = <<>> \/ radio[1].op # "begin")

\* The first characters of line are those of prefix.
HasPrefix(line, prefix) ==
    /\ Len(prefix) <= Len(line)
    /\ \A i \in 1..Len(prefix) : line[i] = prefix[i]

\* The mode lines among the lines the host sends.
ModeLines == {line \in Lines : HasPrefix(line, PFX_TXMODE) \/ HasPrefix(line, PFX_RXMODE)}

\* The line starts with one of the six prefixes.
Recognized(line) ==
    \E prefix \in {PFX_SET, PFX_TXMODE, PFX_RXMODE, PFX_RX_READY, PFX_FILE, PFX_DATA} :
        HasPrefix(line, prefix)

\* What each of the six command variants would make of a line.
Effects(line, st) ==
    { setFrequencyCommand(line, st), txModeCommand(st), rxModeCommand(st),
      rxReadyCommand(st), fileCommand(line, st), dataCommand(line, st) }

\* The two-hex-digit form of a checksum, with its leading zero.
Hex2(n) == <<HexDigits[(n \div 16) + 1], HexDigits[(n % 16) + 1]>>

\* The checksum field of the PacketHeader built from a document (line 123).
HeaderChecksum(doc) == Strlcpy(doc.checksum, ChecksumSize)

\* The radio step received a payload and the codec parsed it.
ReceivedParsed ==
    /\ RadioStep
    /\ radio' = Append(radio, ReceiveCall)
    /\ received'.state = RADIOLIB_ERR_NONE
    /\ received'.error = <<>>

----------------------------------------------------------------------------
(* C1 *)

\* C1: when handleTransmission runs on a non-empty queue and the transmit
\* fails, the head is re-enqueued at the tail behind the other entries, whose
\* order is kept, the queue is as long as before, and exactly one
\* <STATUS|TX_FAIL> is printed.
C1_FailedTransmitRequeuesAtTail ==
    [][ (AtTransmit /\ RadioStep /\ state' # <<RADIOLIB_ERR_NONE>>) =>
            /\ radio' = Append(radio, TransmitCall(Head(packetQueue)))
            /\ packetQueue' = Append(Tail(packetQueue), Head(packetQueue))
            /\ Len(packetQueue') = Len(packetQueue)
            /\ out' = Append(out, STATUS_TX_FAIL) ]_vars

\* A pass ended in a failed transmit that moved the head behind another entry.
C1_Witness ==
    /\ PassDone
    /\ state # <<>> /\ state[1] # RADIOLIB_ERR_NONE
    /\ radio # <<>> /\ radio[Len(radio)].op = "transmit"
    /\ Len(packetQueue) >= 2
    /\ packetQueue[Len(packetQueue)] = radio[Len(radio)].packet
    /\ packetQueue[1] # packetQueue[Len(packetQueue)]
    /\ out = <<STATUS_TX_FAIL>>

----------------------------------------------------------------------------
(* C2 *)

\* C2: a successful transmit removes exactly the head and prints exactly one
\* <STATUS|TX_SUCCESS>; from an empty queue in TX mode, <DATA|abc> followed by
\* a successful transmission leaves one <STATUS|TX_SUCCESS> and an empty
\* queue; on an empty queue handleTransmission calls nothing and prints nothing.
C2_SuccessDiscardsHead ==
    [][ /\ (AtTransmit /\ RadioStep /\ state' = <<RADIOLIB_ERR_NONE>>) =>
                /\ radio' = Append(radio, TransmitCall(Head(packetQueue)))
                /\ packetQueue' = Tail(packetQueue)
                /\ out' = Append(out, STATUS_TX_SUCCESS)
        /\ (CommandStep /\ transmitMode /\ packetQueue = <<>>
                /\ command' = LINE_DATA_ABC) =>
                /\ packetQueue' = <<PayloadABC>>
                /\ out' = <<>> /\ radio' = <<>> /\ transmitMode'
        /\ (RadioStep /\ transmitMode /\ command = LINE_DATA_ABC
                /\ packetQueue = <<PayloadABC>> /\ state' = <<RADIOLIB_ERR_NONE>>) =>
                /\ out' = <<STATUS_TX_SUCCESS>>
                /\ packetQueue' = <<>>
        /\ (RadioStep /\ transmitMode /\ packetQueue = <<>>) =>
                UNCHANGED <<packetQueue, out, radio, state, transmitMode, currentFreq>>
      ]_vars

\* The pass read <DATA|abc>, sent it and left the queue empty.
C2_Witness ==
    /\ PassDone
    /\ command = LINE_DATA_ABC
    /\ radio = <<TransmitCall(PayloadABC)>>
    /\ state = <<RADIOLIB_ERR_NONE>>
    /\ out = <<STATUS_TX_SUCCESS>>
    /\ packetQueue = <<>>

----------------------------------------------------------------------------
(* C3 *)

\* C3: after a failed transmit of the head A, the entries that were queued
\* behind A are attempted, in their order, before A is attempted again, and A
\* is attempted right after them; for the queue [abc, B] with abc failing once
\* and every later attempt succeeding, the attempts are abc, B, abc, the lines
\* are TX_FAIL, TX_SUCCESS, TX_SUCCESS and the queue ends empty.
C3_RetryOrdering ==
    /\ \A j \in 1..Len(watch.attempts) :
        /\ j <= Len(watch.behind) => watch.attempts[j].packet = watch.behind[j]
        /\ j = Len(watch.behind) + 1 => watch.attempts[j].packet = watch.packet
    /\ Len(watch.attempts) <= Len(watch.behind) + 1
    /\ ( /\ watch.packet = PayloadABC
         /\ watch.behind = <<PayloadB>>
         /\ ~watch.data
         /\ Len(watch.attempts) = 2
         /\ watch.attempts[1].ok /\ watch.attempts[2].ok )
       => /\ watch.line = STATUS_TX_FAIL
          /\ watch.attempts[1].packet = PayloadB
          /\ watch.attempts[1].line = STATUS_TX_SUCCESS
          /\ watch.attempts[2].packet = PayloadABC
          /\ watch.attempts[2].line = STATUS_TX_SUCCESS
          /\ packetQueue = <<>>

\* abc failed with B behind it, then B and abc were sent.
C3_Witness ==
    /\ PassDone
    /\ ~watch.open
    /\ watch.packet = PayloadABC
    /\ watch.behind = <<PayloadB>>
    /\ ~watch.data
    /\ Len(watch.attempts) = 2
    /\ watch.attempts[1].ok /\ watch.attempts[2].ok
    /\ packetQueue = <<>>

----------------------------------------------------------------------------
(* C4 *)

\* C4: the mode starts as TX; it is RX exactly when a mode line has been read
\* and the last one was <RXMODE>; no other line and no radio step changes it;
\* <TXMODE> prints <STATUS|TX_MODE> and <RXMODE> prints <STATUS|RX_MODE>, also
\* when the mode is already the one asked for.
C4_ModeStateMachine ==
    /\ [](pc = "setup" => transmitMode)
    /\ [](transmitMode <=> lastModeCmd # "RX")
    /\ [][ (RadioStep \/ pc = "setup" \/ (CommandStep /\ command' \notin ModeLines))
               => transmitMode' = transmitMode ]_vars
    /\ [][ (CommandStep /\ command' = PFX_TXMODE)
               => transmitMode' /\ out' = <<STATUS_TX_MODE>> ]_vars
    /\ [][ (CommandStep /\ command' = PFX_RXMODE)
               => ~transmitMode' /\ out' = <<STATUS_RX_MODE>> ]_vars

\* The mode is RX after <RXMODE>, and stayed RX through a pass that read a
\* line of another kind and received a packet.
C4_Witness ==
    /\ PassDone
    /\ lastModeCmd = "RX"
    /\ ~transmitMode
    /\ command = LINE_DATA_B
    /\ received.state = RADIOLIB_ERR_NONE

----------------------------------------------------------------------------
(* C5 *)

\* The pass just ended in a failed transmit of packet p.
FailedNow(p) ==
    /\ PassDone
    /\ radio # <<>> /\ radio[Len(radio)] = TransmitCall(p)
    /\ state # <<RADIOLIB_ERR_NONE>>

\* The radio step is about to transmit packet p.
Attempting(p) == AtTransmit /\ Head(packetQueue) = p

\* C5: a failed transmit never takes the payload out of the queue, however
\* many attempts have failed in a row, and the payload is attempted again in a
\* later pass unless the mode leaves TX.
C5_RetriedIndefinitely ==
    /\ [][ (AtTransmit /\ RadioStep /\ state' # <<RADIOLIB_ERR_NONE>>) =>
               /\ \E i \in 1..Len(packetQueue') : packetQueue'[i] = Head(packetQueue)
               /\ Len(packetQueue') = Len(packetQueue) ]_vars
    /\ [](\A p \in {PayloadABC, PayloadB} :
             FailedNow(p) => packetQueue # <<>> /\ packetQueue[Len(packetQueue)] = p)
    /\ \A p \in {PayloadABC, PayloadB} :
           [](FailedNow(p) => <>(Attempting(p) \/ ~transmitMode))

\* A payload failed, was attempted again in the next pass, failed again and
\* is still queued.
C5_Witness ==
    /\ FailedNow(PayloadABC)
    /\ ~watch.open
    /\ watch.packet = PayloadABC
    /\ watch.behind = <<>>
    /\ Len(watch.attempts) = 1
    /\ watch.attempts[1].packet = PayloadABC
    /\ ~watch.attempts[1].ok
    /\ packetQueue = <<PayloadABC>>

----------------------------------------------------------------------------
(* C6 *)

\* C6 as claimed: every pass makes exactly one transmit call when the mode is
\* TX and exactly one receive call when the mode is RX.
C6_OneRadioOperationPerPass ==
    PassDone =>
        IF transmitMode
        THEN Count(radio, "transmit") = 1 /\ Count(radio, "receive") = 0
        ELSE Count(radio, "receive") = 1 /\ Count(radio, "transmit") = 0

\* C6 as amended: after the command check a pass makes one transmit call when
\* the mode is TX and the queue is not empty, no radio call when the mode is
\* TX and the queue is empty, and one receive call when the mode is RX; the
\* command check itself transmits and receives nothing.
C6_OneRadioOperationUnlessIdle ==
    [][ /\ CommandStep =>
                Count(radio', "transmit") = 0 /\ Count(radio', "receive") = 0
        /\ (RadioStep /\ transmitMode /\ packetQueue # <<>>) =>
                radio' = Append(radio, TransmitCall(Head(packetQueue)))
        /\ (RadioStep /\ transmitMode /\ packetQueue = <<>>) =>
                radio' = radio
        /\ (RadioStep /\ ~transmitMode) =>
                radio' = Append(radio, ReceiveCall) ]_vars

\* A pass in TX mode on an empty queue ended without a radio call.
C6_Witness ==
    /\ PassDone
    /\ transmitMode
    /\ packetQueue = <<>>
    /\ command = PFX_RX_READY
    /\ radio = <<>>
    /\ state = <<>>

----------------------------------------------------------------------------
(* C7 *)

\* C7 as claimed: a <SET| line whose frequency text is not a number prints
\* nothing and leaves currentFreq as it was.
C7_MalformedFrequencyIsSilent ==
    [][ (CommandStep /\ command' = LINE_SET_BAD) =>
            out' = <<>> /\ currentFreq' = currentFreq ]_vars

\* C7 as amended: a <SET| line whose frequency text holds no number reports no
\* error; like a well-formed one it sets currentFreq, to the 0.0 that the
\* conversion gives, passes it to radio.setFrequency and prints
\* <STATUS|FREQ_SET>; mode and queue are left alone.
C7_MalformedFrequencySetsZero ==
    [][ (CommandStep /\ command' = LINE_SET_BAD) =>
            /\ currentFreq' = 0
            /\ radio' = <<RadioCall("setFrequency", <<>>, 0)>>
            /\ out' = <<STATUS_FREQ_SET>>
            /\ UNCHANGED <<transmitMode, packetQueue>> ]_vars

\* <SET|abc,x> was read: the frequency is 0.0 and FREQ_SET was printed.
C7_Witness ==
    /\ pc = "radio"
    /\ command = LINE_SET_BAD
    /\ currentFreq = 0
    /\ out = <<STATUS_FREQ_SET>>

----------------------------------------------------------------------------
(* C8 *)

\* C8: a line that starts with none of the six prefixes prints nothing, calls
\* nothing on the radio and leaves mode, frequency and queue alone; any line
\* has the effect of at most one command variant.
C8_UnrecognizedIgnored ==
    [][ CommandStep =>
            /\ ~Recognized(command') =>
                    /\ out' = <<>> /\ radio' = <<>>
                    /\ UNCHANGED <<transmitMode, currentFreq, packetQueue>>
            /\ command' # NoLine =>
                    Cur' \in Effects(command', Fresh) \cup {Fresh} ]_vars

\* "hello world" was read in RX mode with a payload queued and the frequency
\* set: nothing was printed.
C8_Witness ==
    /\ pc = "radio"
    /\ command = LINE_HELLO
    /\ ~transmitMode
    /\ packetQueue # <<>>
    /\ currentFreq # InitialFreq
    /\ out = <<>> /\ radio = <<>>

----------------------------------------------------------------------------
(* C9 *)

\* C9: a received payload that parses and whose checksum field is not the
\* two-hex-digit form of checksum(data) gets <STATUS|CHECKSUM_ERR> and no
\* <DATA|...> line.
C9_MismatchRejected ==
    [][ ( /\ ReceivedParsed
          /\ HeaderChecksum(received'.doc) # Hex2(calculateChecksum(received'.doc.data)) )
        => out' = Append(out, STATUS_CHECKSUM_ERR) ]_vars

----------------------------------------------------------------------------
(* C10 *)

\* C10: a received payload that parses and whose checksum field is the
\* two-hex-digit form of checksum(data), leading zero included, is forwarded
\* as exactly one <DATA|<serialized>> line, with no <STATUS|CHECKSUM_ERR>.
C10_MatchForwarded ==
    [][ ( /\ ReceivedParsed
          /\ HeaderChecksum(received'.doc) = Hex2(calculateChecksum(received'.doc.data)) )
        => out' = Append(out, PFX_DATA \o SerializeJson(received'.doc) \o <<">">>) ]_vars

----------------------------------------------------------------------------
(* C11 *)

\* The sum of the character codes of p, not reduced.
RECURSIVE SumOfCodes(_)
SumOfCodes(p) == IF p = <<>> THEN 0 ELSE CharCode(Head(p)) + SumOfCodes(Tail(p))

\* C11: calculateChecksum(p) is the sum of the character codes of p modulo
\* 256 (reducing after each addition gives what reducing once at the end
\* gives), lies in 0..255, is 0 for the empty payload, and is the same on
\* every call with the same payload.
C11_ChecksumIsSumModulo256 ==
    \A k \in 1..Len(ckSums) :
        /\ ckSums[k] = SumOfCodes(ckPayload) % 256
        /\ ckSums[k] \in 0..255
        /\ ckPayload = <<>> => ckSums[k] = 0
        /\ ckSums[k] = ckSums[1]

\* calculateChecksum was called twice on a payload whose codes sum past 255.
C11_Witness ==
    /\ Len(ckSums) = 2
    /\ SumOfCodes(ckPayload) > 255
    /\ ckSums[2] = SumOfCodes(ckPayload) - 256

----------------------------------------------------------------------------
(* C12 *)

\* The line printed for a radio.begin that returned RADIOLIB_ERR_CHIP_NOT_FOUND.
LINE_INIT_FAILED == ERROR_RADIO_INIT \o <<"-","2",">">>

\* C12: when radio.begin fails, exactly one <ERROR|RADIO_INIT_CODE:n> line is
\* printed and the program halts for good: no command is read, no transmit or
\* receive is made, nothing more is printed, and mode, frequency and queue
\* never change.  When it succeeds no ERROR line is printed and loop() starts
\* in mode TX at 868.0 with an empty queue.
C12_InitFailureHalts ==
    /\ [][ (pc = "setup" /\ state' # <<RADIOLIB_ERR_NONE>>) =>
                /\ pc' = "halted"
                /\ out' = <<LINE_INIT_FAILED>> ]_vars
    /\ [](pc = "halted" =>
                /\ out = <<LINE_INIT_FAILED>>
                /\ Count(radio, "begin") = 1 /\ Len(radio) = 1
                /\ command = NoLine
                /\ transmitMode /\ currentFreq = InitialFreq /\ packetQueue = <<>>)
    /\ [][ pc = "halted" => UNCHANGED vars ]_vars
    /\ [][ (pc = "setup" /\ state' = <<RADIOLIB_ERR_NONE>>) =>
                /\ pc' = "poll"
                /\ out' = <<>>
                /\ transmitMode' /\ currentFreq' = InitialFreq /\ packetQueue' = <<>> ]_vars

\* radio.begin failed: the error line is out and the program is at line 42.
C12_Witness ==
    /\ pc = "halted"
    /\ state = <<-2>>
    /\ out = <<LINE_INIT_FAILED>>

----------------------------------------------------------------------------
(* C13 *)

\* The radio step called radio.receive.
ReceiveStep == RadioStep /\ radio' = Append(radio, ReceiveCall)

\* C13: when a received payload does not parse, exactly one
\* <ERROR|JSON:message> line is printed and nothing else: no
\* <STATUS|CHECKSUM_ERR>, no <DATA|...>, and mode, frequency and queue stay as
\* they are.  A receive that did not succeed prints nothing.
C13_ParseFailureReportedOnce ==
    [][ /\ (ReceiveStep /\ received'.state = RADIOLIB_ERR_NONE
                /\ received'.error # <<>>) =>
                /\ out' = Append(out, ERROR_JSON \o received'.error \o <<">">>)
                /\ UNCHANGED <<transmitMode, currentFreq, packetQueue>>
        /\ (ReceiveStep /\ received'.state # RADIOLIB_ERR_NONE) =>
                /\ out' = out
                /\ UNCHANGED <<transmitMode, currentFreq, packetQueue>>
      ]_vars

\* A pass in RX mode received a payload that did not parse, with an entry
\* waiting in the queue.
C13_Witness ==
    /\ PassDone
    /\ radio = <<ReceiveCall>>
    /\ received.state = RADIOLIB_ERR_NONE
    /\ received.error = InvalidInput
    /\ out = <<ERROR_JSON \o InvalidInput \o <<">">> >>
    /\ packetQueue # <<>>

----------------------------------------------------------------------------
(* C14 *)

\* The text of a line between its first six characters and its first '>'.
PayloadOf(line) ==
    LET k == CHOOSE i \in 1..Len(line) :
                 line[i] = ">" /\ \A j \in 1..(i - 1) : line[j] # ">"
    IN  [i \in 1..(k - 7) |-> line[i + 6]]

\* C14: a <DATA|payload> line, in either mode, appends to a queue that is not
\* full exactly one entry, at the tail: the text between the prefix <DATA| and
\* the first '>' of the line, as it is.  It prints nothing, calls nothing on
\* the radio, and leaves mode, frequency and the entries queued before
\* unchanged and in their order.
C14_DataEnqueuesVerbatim ==
    [][ (CommandStep /\ HasPrefix(command', PFX_DATA)
            /\ Len(packetQueue) < QueueCapacity) =>
            /\ packetQueue' = Append(packetQueue, PayloadOf(command'))
            /\ Len(packetQueue') = Len(packetQueue) + 1
            /\ out' = <<>>
            /\ radio' = <<>>
            /\ UNCHANGED <<transmitMode, currentFreq>> ]_vars

\* In RX mode a line holding two '>' was read and its payload, the text up
\* to the first one, is queued behind the entry that was there.
C14_Witness ==
    /\ pc = "radio"
    /\ ~transmitMode
    /\ command = LINE_DATA_TWO
    /\ packetQueue = <<PayloadABC, PayloadB>>
    /\ out = <<>> /\ radio = <<>>

----------------------------------------------------------------------------
(* C15 *)

\* The frequency text of a <SET| line starts with a digit.
WellFormedSet(line) ==
    /\ HasPrefix(line, PFX_SET)
    /\ Len(line) >= 6
    /\ \E d \in 1..Len(Digits) : line[6] = Digits[d]

\* C15: a <SET|f,...> line with a well-formed frequency f, in either mode,
\* sets currentFreq to f, passes f to radio.setFrequency exactly once, prints
\* exactly one <STATUS|FREQ_SET> and leaves the mode and the queue unchanged;
\* <SET|433.92,x> sets currentFreq to 433.92.
C15_SetFrequency ==
    [][ /\ (CommandStep /\ WellFormedSet(command')) =>
                /\ radio' = <<RadioCall("setFrequency", <<>>, currentFreq')>>
                /\ out' = <<STATUS_FREQ_SET>>
                /\ UNCHANGED <<transmitMode, packetQueue>>
        /\ (CommandStep /\ command' = LINE_SET_433) => currentFreq' = 433920
      ]_vars

\* In RX mode, with an entry queued, <SET|433.92,x> was read.
C15_Witness ==
    /\ pc = "radio"
    /\ ~transmitMode
    /\ packetQueue # <<>>
    /\ command = LINE_SET_433
    /\ currentFreq = 433920
    /\ radio = <<RadioCall("setFrequency", <<>>, 433920)>>
    /\ out = <<STATUS_FREQ_SET>>

----------------------------------------------------------------------------
(* C16 *)

\* q is the first part of r.
IsPrefix(q, r) == Len(q) <= Len(r) /\ SubSeq(r, 1, Len(q)) = q

\* C16: in one pass the command is interpreted before the radio step, and the
\* radio step goes by the mode the command left: a pass that read <RXMODE>
\* calls receive and attempts no transmission, one that read <TXMODE> runs
\* handleTransmission and attempts no reception.  While the mode is RX no
\* transmit is attempted and no entry leaves the queue; while it is TX no
\* receive is attempted.
C16_CommandBeforeRadioStep ==
    [][ /\ CommandStep =>
                /\ Count(radio', "transmit") = 0 /\ Count(radio', "receive") = 0
                /\ command' = PFX_RXMODE => ~transmitMode'
                /\ command' = PFX_TXMODE => transmitMode'
                /\ IsPrefix(packetQueue, packetQueue')
        /\ (RadioStep /\ command = PFX_RXMODE) =>
                /\ radio' = Append(radio, ReceiveCall)
                /\ Count(radio', "transmit") = 0
        /\ (RadioStep /\ command = PFX_TXMODE) =>
                /\ Count(radio', "receive") = 0
                /\ packetQueue # <<>> =>
                       radio' = Append(radio, TransmitCall(Head(packetQueue)))
        /\ (RadioStep /\ ~transmitMode) =>
                /\ Count(radio', "transmit") = 0
                /\ packetQueue' = packetQueue
        /\ (RadioStep /\ transmitMode) => Count(radio', "receive") = 0
      ]_vars

\* A pass read <RXMODE> with entries queued and its radio step was a receive.
C16_Witness ==
    /\ PassDone
    /\ command = PFX_RXMODE
    /\ out # <<>> /\ out[1] = STATUS_RX_MODE
    /\ radio = <<ReceiveCall>>
    /\ Len(packetQueue) = 2

----------------------------------------------------------------------------
(* C17 *)

\* C17: the queue never holds more than 50 entries, and a <DATA| line read
\* while it holds 50 has no effect: the entries and their order stay, the new
\* payload is not stored, and nothing is printed.
C17_FullQueueRefusesData ==
    /\ [](Len(packetQueue) <= 50)
    /\ [][ (CommandStep /\ HasPrefix(command', PFX_DATA) /\ Len(packetQueue) = 50) =>
                /\ packetQueue' = packetQueue
                /\ out' = <<>>
                /\ radio' = <<>>
                /\ UNCHANGED <<transmitMode, currentFreq>> ]_vars

\* <DATA|B> was read on a queue of 50 entries: the only B queued is the one
\* at the head, none was added at the tail.
C17_Witness ==
    /\ pc = "radio"
    /\ command = LINE_DATA_B
    /\ Len(packetQueue) = 50
    /\ packetQueue[1] = PayloadB
    /\ \A i \in 2..50 : packetQueue[i] = PayloadABC
    /\ out = <<>>

----------------------------------------------------------------------------
(* C18 *)

\* C18: transmitMode and currentFreq are changed by handleRadioCommand only:
\* handleTransmission and handleReception leave both as they are whatever
\* the outcome (sent, not sent, nothing received, parse error, checksum
\* error, forwarded), and handleReception leaves the queue as it is too.
C18_OnlyCommandsChangeModeAndFrequency ==
    [][ /\ RadioStep => UNCHANGED <<transmitMode, currentFreq>>
        /\ ReceiveStep => packetQueue' = packetQueue
        /\ (CommandStep /\ command' = NoLine) =>
                UNCHANGED <<transmitMode, currentFreq, packetQueue>>
        /\ (transmitMode' # transmitMode \/ currentFreq' # currentFreq) =>
                CommandStep /\ Recognized(command')
      ]_vars

\* In RX mode at 433.92, with an entry queued, a packet came whose checksum
\* did not match.
C18_Witness ==
    /\ PassDone
    /\ ~transmitMode
    /\ currentFreq = 433920
    /\ packetQueue # <<>>
    /\ radio = <<ReceiveCall>>
    /\ out = <<STATUS_CHECKSUM_ERR>>

----------------------------------------------------------------------------
(* C19 *)

\* How many entries of q are packet.
Copies(q, packet) == Cardinality({i \in 1..Len(q) : q[i] = packet})

\* q and r hold the same entries, each as many times.
SameEntries(q, r) ==
    /\ Len(q) = Len(r)
    /\ \A i \in 1..Len(q) : Copies(q, q[i]) = Copies(r, q[i])

\* C19: queued payloads are conserved.  An entry comes into the queue only
\* by a <DATA| line read while the queue is not full, once; an entry leaves it
\* only by a transmit that succeeded, the head and no other, with one
\* <STATUS|TX_SUCCESS>; any other step leaves the same entries, each as many
\* times.  The re-enqueue after a failed transmit is not dropped when the
\* queue held 50 entries before the attempt.
C19_QueuedPayloadsConserved ==
    [][ /\ CommandStep =>
                packetQueue' = IF HasPrefix(command', PFX_DATA) /\ Len(packetQueue) < 50
                               THEN Append(packetQueue, PayloadOf(command'))
                               ELSE packetQueue
        /\ (RadioStep /\ Len(out') > Len(out)
                /\ out'[Len(out')] = STATUS_TX_SUCCESS) =>
                /\ packetQueue # <<>>
                /\ packetQueue' = Tail(packetQueue)
                /\ radio' = Append(radio, TransmitCall(Head(packetQueue)))
                /\ out' = Append(out, STATUS_TX_SUCCESS)
        /\ (RadioStep /\ ~(Len(out') > Len(out)
                /\ out'[Len(out')] = STATUS_TX_SUCCESS)) =>
                SameEntries(packetQueue, packetQueue')
        /\ (RadioStep /\ Len(packetQueue) = 50 /\ state' = <<-5>>) =>
                /\ packetQueue' = Append(Tail(packetQueue), Head(packetQueue))
                /\ Len(packetQueue') = 50
      ]_vars

\* The transmit of B at the head of 50 entries failed, and B is the last of
\* the 50 entries now.
C19_Witness ==
    /\ PassDone
    /\ radio = <<TransmitCall(PayloadB)>>
    /\ state = <<-5>>
    /\ out = <<STATUS_TX_FAIL>>
    /\ Len(packetQueue) = 50
    /\ packetQueue[50] = PayloadB
    /\ Copies(packetQueue, PayloadB) = 1

----------------------------------------------------------------------------
(* C20 *)

\* A pass has just ended whose transmit succeeded.
SuccessDone ==
    /\ PassDone
    /\ out # <<>> /\ out[Len(out)] = STATUS_TX_SUCCESS

\* C20: if from some point on the mode stays TX and no <DATA| line comes, and
\* the radio does not fail for ever (again and again the queue is empty or a
\* transmit has succeeded), then the queue becomes empty and stays so; on an
\* empty queue in TX mode the radio step attempts no transmit and prints no
\* TX_SUCCESS or TX_FAIL, and only a <DATA| line makes the queue non-empty
\* again.
C20_QueueDrains ==
    /\ ( /\ <>[]transmitMode
         /\ <>[](command \notin DataLines)
         /\ []<>(packetQueue = <<>> \/ SuccessDone) )
            => <>[](packetQueue = <<>>)
    /\ [][ (RadioStep /\ transmitMode /\ packetQueue = <<>>) =>
                /\ Count(radio', "transmit") = 0
                /\ out' = out
                /\ packetQueue' = <<>> ]_vars
    /\ [][ (packetQueue = <<>> /\ packetQueue' # <<>>) =>
                CommandStep /\ HasPrefix(command', PFX_DATA) ]_vars

\* In a pass that read no line, the entry that had failed before was sent and
\* the queue is empty.
C20_Witness ==
    /\ PassDone
    /\ transmitMode
    /\ command = NoLine
    /\ watch.attempts # <<>>
    /\ state = <<RADIOLIB_ERR_NONE>>
    /\ out = <<STATUS_TX_SUCCESS>>
    /\ packetQueue = <<>>

====
